---- MODULE Spec2Model ----
(***************************************************************************)
(* Disease-term batch translation: the context lookup with its fallback    *)
(* levels and the token-budget truncation of the context paragraph, as     *)
(* implemented by disaese_server.py (class DiseaseTranslationBatch) and by *)
(* translation_disaese.py (functions truncate_context_if_needed and main). *)
(*                                                                         *)
(* Texts (terms, sections, paragraphs) are sequences of one-character      *)
(* strings.  A missing spreadsheet cell (pandas NaN) is the value NaN.     *)
(***************************************************************************)
EXTENDS Integers, Sequences, FiniteSets, TLC

VARIABLES
    program,                \* which script runs: "disaese_server" or "translation_disaese"
    loaded_control_df,      \* the control table as read from the workbook
    add_bos,                \* tokenizer configuration: encode() prepends the BOS token
    vocab_has_fffd,         \* tokenizer vocabulary: U+FFFD is a token of its own
    max_tokens,             \* config translation.max_context_tokens / parameter max_tokens
    control_df,             \* the control table, a sequence of records (no, section, disease_content)
    files,                  \* the target files found in the folder, in processing order
    pc,                     \* position of the batch driver
    file_idx,               \* number of files taken so far
    rows_done,              \* rows of the current file already iterated
    volume_no,              \* volume number of the current file
    translation_results,    \* records appended so far (per file in the server, global in the script)
    fallback_used,          \* server: per-file flag; script: flag of the last iteration
    actual_volume_used,     \* server: per-file variable
    fallback_level1_count,  \* server: per-file counter
    fallback_level2_count,  \* server: per-file counter
    all_translation_results,\* server: merged results of process_all_files
    file_results,           \* server: the result dict returned for each processed file
    overall_status,         \* server: status computed at the end of process_all_files
    generate_calls,         \* number of calls of execute_translation_prompt issued so far
    task,                   \* local variables of the last loop iteration
    bud,                    \* one stand-alone call of truncate_context_if_needed
    fetch,                  \* one call of SymMapAPIFetcher.batch_fetch_ingredient_targets
    herb,                   \* one call of translate_to_english (translate_herbs_to_english.py)
    resume,                 \* the runs of translate_herbs_to_english_resume.py and its progress file
    single                  \* server: one direct call of process_file_translation

vars == <<program, loaded_control_df, add_bos, vocab_has_fffd,
         max_tokens, control_df, files, pc, file_idx, rows_done,
          volume_no, translation_results, fallback_used, actual_volume_used,
          fallback_level1_count, fallback_level2_count, all_translation_results,
          file_results, overall_status, generate_calls, task, bud, fetch, herb, resume,
          single>>

\* The variables of the disease-term batch and of the budgeter call.
batchVars == <<program, loaded_control_df, add_bos, vocab_has_fffd,
         max_tokens, control_df, files, pc, file_idx, rows_done,
               volume_no, translation_results, fallback_used, actual_volume_used,
               fallback_level1_count, fallback_level2_count, all_translation_results,
               file_results, overall_status, generate_calls, task, bud, single>>

\* ---------------------------------------------------------------- bounds
MaxTable == 2       \* records in the control table
MaxLen == 3         \* characters in a context paragraph (budgeter runs)
MaxBudget == 9      \* largest max_tokens tried (budgeter runs)
MaxMols == 2        \* mol_ids in a batch (fetch runs)
MaxRetries == 3     \* largest max_retries tried (fetch and herb runs)
MaxAttempts == 4    \* calls followed for one mol_id (fetch runs)
MaxTargets == 2     \* targets in one answer (fetch runs)
MaxTotal == 3       \* rows of the herb table (resume runs)
MaxBatch == 2       \* largest BATCH_SIZE tried (resume runs)
MaxRuns == 3        \* starts of the resumable script (resume runs)

\* ---------------------------------------------------------------- values
\* pandas NaN: the value of an empty spreadsheet cell; it is not a text.
NaN == <<"<NaN>">>
isna(x) == x = NaN

\* A spreadsheet cell that holds a number: it is not null and it is not a
\* text; tokenizer.encode raises on it.
Number == <<"<num>">>

Min2(a, b) == IF a <= b THEN a ELSE b
Max2(a, b) == IF a >= b THEN a ELSE b
Abs(x) == IF x < 0 THEN -x ELSE x

RECURSIVE SeqsUpTo(_, _)
SeqsUpTo(S, n) ==
    IF n = 0 THEN {<<>>}
    ELSE LET shorter == SeqsUpTo(S, n - 1)
         IN  shorter \cup {Append(s, x) : s \in {t \in shorter : Len(t) = n - 1}, x \in S}

\* ---------------------------------------------------------------- tokenizer
\* The tokenizer of the local model, a byte-level BPE tokenizer: the text is
\* turned into bytes, the bytes are merged into tokens by the vocabulary,
\* encode() prepends a BOS token, decode(..., skip_special_tokens=True) drops
\* it, joins the bytes of the tokens and decodes them, replacing bytes that
\* form no character by U+FFFD.  "a", "b", "x", ... are characters of one
\* byte, "ab" is in the vocabulary; "w" is a character the vocabulary holds
\* only in two pieces, and so is U+FFFD unless the vocabulary has it.
BOS == <<"<bos>">>
Merges == {<<"a", "b">>}
FFFD == "\\ufffd"

FirstPiece(c) == IF c = "w" THEN "w:1" ELSE "\\ufffd:1"
SecondPiece(c) == IF c = "w" THEN "w:2" ELSE "\\ufffd:2"
InPieces == {"w"} \cup (IF vocab_has_fffd THEN {} ELSE {FFFD})
Pieces == {"w:1", "w:2", "\\ufffd:1", "\\ufffd:2"}

RECURSIVE Tokenize(_)
Tokenize(text) ==
    IF text = <<>> THEN <<>>
    ELSE IF Head(text) \in InPieces
         THEN <<<<FirstPiece(Head(text))>>, <<SecondPiece(Head(text))>>>> \o Tokenize(Tail(text))
    ELSE IF Len(text) >= 2 /\ SubSeq(text, 1, 2) \in Merges
         THEN <<SubSeq(text, 1, 2)>> \o Tokenize(SubSeq(text, 3, Len(text)))
         ELSE <<SubSeq(text, 1, 1)>> \o Tokenize(Tail(text))

encode(text) == (IF add_bos THEN <<BOS>> ELSE <<>>) \o Tokenize(text)

\* The bytes of the tokens, special tokens dropped.
RECURSIVE token_bytes(_)
token_bytes(ids) ==
    IF ids = <<>> THEN <<>>
    ELSE (IF Head(ids) = BOS THEN <<>> ELSE Head(ids)) \o token_bytes(Tail(ids))

\* bytes.decode('utf-8', errors='replace'): two pieces of one character give
\* the character, a piece without its other half gives U+FFFD.
RECURSIVE bytes_decode(_)
bytes_decode(bytes) ==
    IF bytes = <<>> THEN <<>>
    ELSE IF /\ Len(bytes) >= 2
            /\ \E c \in {"w", FFFD} : bytes[1] = FirstPiece(c) /\ bytes[2] = SecondPiece(c)
         THEN <<CHOOSE c \in {"w", FFFD} : bytes[1] = FirstPiece(c)>>
              \o bytes_decode(SubSeq(bytes, 3, Len(bytes)))
    ELSE IF Head(bytes) \in Pieces THEN <<FFFD>> \o bytes_decode(Tail(bytes))
    ELSE <<Head(bytes)>> \o bytes_decode(Tail(bytes))

decode(ids) == bytes_decode(token_bytes(ids))

\* Python slice seq[:n], n of either sign.
SliceTo(seq, n) ==
    IF n >= 0 THEN SubSeq(seq, 1, Min2(n, Len(seq)))
    ELSE SubSeq(seq, 1, Max2(Len(seq) + n, 0))

\* Python slice seq[n:], n >= 0.
SliceFrom(seq, n) == SubSeq(seq, Min2(n, Len(seq)) + 1, Len(seq))

\* ---------------------------------------------------------------- prompt budget
\* prompt_template.format(context_paragraph=..., term=...)
prompt_template(context_paragraph, term) ==
    <<"H">> \o context_paragraph \o <<"M">> \o term \o <<"T">>

base_tokens(term) == Len(encode(prompt_template(<<>>, term)))
available_tokens(term) == max_tokens - base_tokens(term)

truncate_tail_mutant(context_paragraph, term) ==
    LET context_token_ids == encode(context_paragraph)
    IN  IF Len(context_token_ids) <= available_tokens(term)
        THEN context_paragraph
        ELSE decode(SliceFrom(context_token_ids,
                              Max2(Len(context_token_ids) - available_tokens(term), 0)))

truncate_chars_mutant(context_paragraph, term) ==
    IF Len(encode(context_paragraph)) <= available_tokens(term)
    THEN context_paragraph
    ELSE SliceTo(context_paragraph, available_tokens(term))

truncate_margin_mutant(context_paragraph, term) ==
    LET context_token_ids == encode(context_paragraph)
    IN  IF Len(context_token_ids) < available_tokens(term)
        THEN context_paragraph
        ELSE decode(SliceTo(context_token_ids, available_tokens(term) - 1))

truncate_context_if_needed(context_paragraph, term) ==
    LET context_token_ids == encode(context_paragraph)
        context_tokens == Len(context_token_ids)
    IN  IF context_tokens <= available_tokens(term)
        THEN context_paragraph
        ELSE decode(SliceTo(context_token_ids, available_tokens(term)))

\* ---------------------------------------------------------------- text helpers
\* str.strip() removes the characters for which str.isspace() holds; those
\* with no escape of their own are named by their Python escape.
Whitespace ==
    { " ", "\t", "\n", "\r", "\f", "\\x0b", "\\x1c", "\\x1d", "\\x1e", "\\x1f",
      "\\x85", "\\xa0", "\\u1680", "\\u2000", "\\u2001", "\\u2002", "\\u2003",
      "\\u2004", "\\u2005", "\\u2006", "\\u2007", "\\u2008", "\\u2009", "\\u200a",
      "\\u2028", "\\u2029", "\\u202f", "\\u205f", "\\u3000" }

RECURSIVE lstrip(_)
lstrip(text) ==
    IF text # <<>> /\ Head(text) \in Whitespace THEN lstrip(Tail(text)) ELSE text

RECURSIVE rstrip(_)
rstrip(text) ==
    IF text # <<>> /\ text[Len(text)] \in Whitespace
    THEN rstrip(SubSeq(text, 1, Len(text) - 1)) ELSE text

strip_nothing_mutant(text) == text

strip(text) == rstrip(lstrip(text))

\* str.startswith(prefix)
startswith(text, prefix) ==
    Len(text) >= Len(prefix) /\ SubSeq(text, 1, Len(prefix)) = prefix

\* The characters U+6CBB ("zhi", to treat) and U+7642 ("liao", to cure), each
\* one character of a term.
ZHI == "zhi"
LIAO == "liao"

RECURSIVE strip_all_leading_zhi_mutant(_)
strip_all_leading_zhi_mutant(term) ==
    IF term # <<>> /\ Head(term) \in {ZHI, LIAO}
    THEN strip_all_leading_zhi_mutant(Tail(term)) ELSE term

\* Removal of a leading ZHI LIAO, else of a leading ZHI (server only).
strip_leading_zhi(term) ==
    IF term # <<>> /\ startswith(term, <<ZHI, LIAO>>) THEN SliceFrom(term, 2)
    ELSE IF term # <<>> /\ startswith(term, <<ZHI>>) THEN SliceFrom(term, 1)
    ELSE term

\* ---------------------------------------------------------------- context lookup
exact_rows_section_only_mutant(df, volume, section) ==
    {i \in DOMAIN df : df[i].section = section}

\* control_df[(control_df['no'] == volume) & (control_df['section'] == section)]
exact_rows(df, volume, section) ==
    {i \in DOMAIN df : df[i].no = volume /\ df[i].section = section}

\* control_df[control_df['no'] == volume]
volume_rows(df, volume) == {i \in DOMAIN df : df[i].no = volume}

iloc_last_mutant(rows) == CHOOSE i \in rows : \A j \in rows : i >= j

iloc_second_mutant(rows) ==
    IF Cardinality(rows) = 1 THEN CHOOSE i \in rows : TRUE
    ELSE CHOOSE i \in rows : Cardinality({j \in rows : j < i}) = 1

\* .iloc[0] of a non-empty selection: the first row in table order
iloc0(rows) == CHOOSE i \in rows : \A j \in rows : i <= j

\* control_df['no'].unique()
unique_volumes(df) == {df[i].no : i \in DOMAIN df}

\* The volumes in the order of their first record in the table (no sort).
RECURSIVE sorted_table_order_mutant(_)
sorted_table_order_mutant(S) ==
    IF S = {} THEN <<>>
    ELSE LET first == CHOOSE i \in DOMAIN control_df :
                          /\ control_df[i].no \in S
                          /\ \A j \in 1..(i - 1) : control_df[j].no \notin S
         IN  <<control_df[first].no>> \o sorted_table_order_mutant(S \ {control_df[first].no})

\* sorted(...)
RECURSIVE sorted(_)
sorted(S) ==
    IF S = {} THEN <<>>
    ELSE LET m == CHOOSE x \in S : \A y \in S : x <= y
         IN  <<m>> \o sorted(S \ {m})

\* min(available_volumes, key=lambda x: abs(x - volume)): the first element
\* of the list whose key is strictly smaller than every key before it.
RECURSIVE min_scan(_, _, _)
min_scan(best, rest, volume) ==
    IF rest = <<>> THEN best
    ELSE min_scan(IF Abs(Head(rest) - volume) < Abs(best - volume)
                  THEN Head(rest) ELSE best,
                  Tail(rest), volume)

nearest_volume_of(available_volumes, volume) ==
    min_scan(Head(available_volumes), Tail(available_volumes), volume)

Found(branch, row, nearest) == [branch |-> branch, row |-> row, nearest_volume |-> nearest]

find_context_volume_first_mutant(df, volume, section) ==
    LET same == volume_rows(df, volume)
        available_volumes == sorted(unique_volumes(df))
    IN  IF same # {} THEN Found("same_volume", iloc0(same), volume)
        ELSE IF available_volumes = <<>>
        THEN Found(IF program = "disaese_server" THEN "raise" ELSE "no_volumes", 0, volume)
        ELSE LET nearest == nearest_volume_of(available_volumes, volume)
             IN  Found("nearest", iloc0(volume_rows(df, nearest)), nearest)

find_context_stale_mutant(df, volume, section) ==
    LET exact == exact_rows(df, volume, section)
        same == volume_rows(df, volume)
        available_volumes == sorted(unique_volumes(df))
    IN  IF task.volume_no = volume /\ task.row \in DOMAIN df
        THEN Found(task.branch, task.row, task.nearest_volume)
        ELSE IF exact # {} THEN Found("exact", iloc0(exact), volume)
        ELSE IF same # {} THEN Found("same_volume", iloc0(same), volume)
        ELSE IF available_volumes = <<>>
        THEN Found(IF program = "disaese_server" THEN "raise" ELSE "no_volumes", 0, volume)
        ELSE LET nearest == nearest_volume_of(available_volumes, volume)
                 nearest_fallback == volume_rows(df, nearest)
             IN  IF nearest_fallback # {}
                 THEN Found("nearest", iloc0(nearest_fallback), nearest)
                 ELSE Found("no_context", 0, nearest)

\* The lookup of one loop iteration: exact match, else the first row of the
\* same volume, else the first row of the nearest volume.  With no volume at
\* all the server's min() raises ValueError and the script skips the term.
find_context(df, volume, section) ==
    LET exact == exact_rows(df, volume, section)
        same == volume_rows(df, volume)
        available_volumes == sorted(unique_volumes(df))
    IN  IF exact # {} THEN Found("exact", iloc0(exact), volume)
        ELSE IF same # {} THEN Found("same_volume", iloc0(same), volume)
        ELSE IF available_volumes = <<>>
        THEN Found(IF program = "disaese_server" THEN "raise" ELSE "no_volumes", 0, volume)
        ELSE LET nearest == nearest_volume_of(available_volumes, volume)
                 nearest_fallback == volume_rows(df, nearest)
             IN  IF nearest_fallback # {}
                 THEN Found("nearest", iloc0(nearest_fallback), nearest)
                 ELSE Found("no_context", 0, nearest)

\* ---------------------------------------------------------------- one loop iteration
\* execute_translation_prompt returns the stripped response of the model, or
\* the failure text when generation raised.
GenerationFailed == <<"f", "a", "i", "l">>
Responses == {<<"r">>, GenerationFailed}

\* The local variables at the end of one iteration of the row loop.
Locals(term, section, found, actual_section, context, truncated, translated, flag, actual_volume, outcome) ==
    [volume_no |-> volume_no, term |-> term, section |-> section,
     branch |-> found.branch, row |-> found.row, nearest_volume |-> found.nearest_volume,
     actual_section_used |-> actual_section, context_paragraph |-> context,
     truncated_context |-> truncated, translated_text |-> translated,
     fallback_used |-> flag, actual_volume_used |-> actual_volume, outcome |-> outcome]

NoLookup == Found("none", 0, 0)
NoTask == [volume_no |-> 0, term |-> NaN, section |-> NaN,
           branch |-> "none", row |-> 0, nearest_volume |-> 0,
           actual_section_used |-> NaN, context_paragraph |-> NaN,
           truncated_context |-> NaN, translated_text |-> NaN,
           fallback_used |-> FALSE, actual_volume_used |-> 0, outcome |-> "none"]

\* The branch that logs "no context found" and continues with the next row
\* (script), or in which min() raised (server).
lookup_failed_default_context_mutant(term, section, found) ==
    Locals(term, section, found, section, <<>>, <<>>, <<"r">>,
           IF program = "disaese_server" THEN fallback_used ELSE FALSE,
           actual_volume_used, "translated")

lookup_failed(term, section, found) ==
    Locals(term, section, found, section, NaN, NaN, NaN,
           IF program = "disaese_server" THEN fallback_used ELSE FALSE,
           actual_volume_used,
           IF found.branch = "raise" THEN "raised" ELSE "no_context")

iteration_flag_per_task_mutant(row, response) ==
    LET server == program = "disaese_server"
        term == IF server /\ ~isna(row.disease) THEN strip_leading_zhi(row.disease) ELSE row.disease
        section == row.section
    IN  IF isna(row.disease) \/ isna(row.section)
        THEN Locals(row.disease, section, NoLookup, NaN, NaN, NaN, NaN,
                    fallback_used, actual_volume_used, "not_valid")
        ELSE IF strip(term) = <<>> \/ strip(section) = <<>>
        THEN Locals(term, section, NoLookup, NaN, NaN, NaN, NaN,
                    fallback_used, actual_volume_used, "blank")
        ELSE
        LET found == find_context(control_df, volume_no, section)
            is_fallback == found.branch \in {"same_volume", "nearest"}
            flag == is_fallback
            actual_volume == IF server /\ found.branch = "nearest"
                             THEN found.nearest_volume ELSE actual_volume_used
        IN  IF found.branch \in {"raise", "no_volumes", "no_context"}
            THEN lookup_failed(term, section, found)
            ELSE
            LET actual_section == IF is_fallback THEN control_df[found.row].section ELSE section
                context == control_df[found.row].disease_content
            IN  IF isna(context)
                THEN Locals(term, section, found, actual_section, context, NaN, NaN,
                            flag, actual_volume, "empty_context")
                ELSE IF context = Number
                THEN Locals(term, section, found, actual_section, context, NaN, NaN,
                            flag, actual_volume, "raised")
                ELSE Locals(term, section, found, actual_section, context,
                            truncate_context_if_needed(context, term), response,
                            flag, actual_volume, "translated")

iteration_no_isna_mutant(row, response) ==
    LET server == program = "disaese_server"
        term == IF server /\ ~isna(row.disease) THEN strip_leading_zhi(row.disease) ELSE row.disease
        section == row.section
    IN  IF isna(row.disease) \/ isna(row.section)
        THEN Locals(row.disease, section, NoLookup, NaN, NaN, NaN, NaN,
                    fallback_used, actual_volume_used, "not_valid")
        ELSE IF strip(term) = <<>> \/ strip(section) = <<>>
        THEN Locals(term, section, NoLookup, NaN, NaN, NaN, NaN,
                    fallback_used, actual_volume_used, "blank")
        ELSE
        LET found == find_context(control_df, volume_no, section)
            is_fallback == found.branch \in {"same_volume", "nearest"}
            flag == IF server THEN fallback_used \/ is_fallback ELSE is_fallback
            actual_volume == IF server /\ found.branch = "nearest"
                             THEN found.nearest_volume ELSE actual_volume_used
        IN  IF found.branch \in {"raise", "no_volumes", "no_context"}
            THEN lookup_failed(term, section, found)
            ELSE
            LET actual_section == IF is_fallback THEN control_df[found.row].section ELSE section
                context == control_df[found.row].disease_content
            IN  IF context = Number
                THEN Locals(term, section, found, actual_section, context, NaN, NaN,
                            flag, actual_volume, "raised")
                ELSE Locals(term, section, found, actual_section, context,
                            truncate_context_if_needed(context, term), response,
                            flag, actual_volume, "translated")

\* Iteration of _process_file_core_translation (server) or of main (script)
\* for one row of target_df and one response of the model.  The outcome is
\* "raised" when the iteration ends with an exception: min() of no volume
\* (server), or tokenizer.encode of a context that is not a text.
iteration(row, response) ==
    LET server == program = "disaese_server"
        term == IF server /\ ~isna(row.disease) THEN strip_leading_zhi(row.disease) ELSE row.disease
        section == row.section
    IN  IF isna(row.disease) \/ isna(row.section)
        THEN Locals(row.disease, section, NoLookup, NaN, NaN, NaN, NaN,
                    fallback_used, actual_volume_used, "not_valid")
        ELSE IF strip(term) = <<>> \/ strip(section) = <<>>
        THEN Locals(term, section, NoLookup, NaN, NaN, NaN, NaN,
                    fallback_used, actual_volume_used, "blank")
        ELSE
        LET found == find_context(control_df, volume_no, section)
            is_fallback == found.branch \in {"same_volume", "nearest"}
            flag == IF server THEN fallback_used \/ is_fallback ELSE is_fallback
            actual_volume == IF server /\ found.branch = "nearest"
                             THEN found.nearest_volume ELSE actual_volume_used
        IN  IF found.branch \in {"raise", "no_volumes", "no_context"}
            THEN lookup_failed(term, section, found)
            ELSE
            LET actual_section == IF is_fallback THEN control_df[found.row].section ELSE section
                context == control_df[found.row].disease_content
            IN  IF isna(context)
                THEN Locals(term, section, found, actual_section, context, NaN, NaN,
                            flag, actual_volume, "empty_context")
                ELSE IF context = Number
                THEN Locals(term, section, found, actual_section, context, NaN, NaN,
                            flag, actual_volume, "raised")
                ELSE Locals(term, section, found, actual_section, context,
                            truncate_context_if_needed(context, term), response,
                            flag, actual_volume, "translated")

\* ---------------------------------------------------------------- output records
\* The dict appended to translation_results.  Fields: volume = column 1
\* (volume number), section = column 2, term = column 3 (original text),
\* translated = column 4; the script adds used_fallback and actual_section.
ServerRecord(t) ==
    [volume |-> t.volume_no, section |-> t.section, term |-> t.term,
     translated |-> t.translated_text]

ScriptRecord(t) ==
    [volume |-> t.volume_no, section |-> t.section, term |-> t.term,
     translated |-> t.translated_text,
     used_fallback |-> t.fallback_used,
     actual_section |-> IF t.fallback_used THEN t.actual_section_used ELSE t.section]

\* ---------------------------------------------------------------- server: process_all_files
ServerFindFiles ==
    /\ program = "disaese_server" /\ pc = "start"
    /\ pc' = IF files = <<>> THEN "done" ELSE "next_file"
    /\ UNCHANGED <<program, loaded_control_df, add_bos, vocab_has_fffd,
         max_tokens, control_df, files, file_idx, rows_done,
                   volume_no, translation_results, fallback_used, actual_volume_used,
                   fallback_level1_count, fallback_level2_count, all_translation_results,
                   file_results, overall_status, generate_calls, task, bud, fetch, herb, resume, single>>

ErrorResult == [status |-> "error", volume_no |-> 0, translation_results |-> <<>>,
                fallback_used |-> FALSE, actual_volume_used |-> 0]

ServerStartFile_no_reset_mutant ==
    /\ program = "disaese_server" /\ pc = "next_file" /\ file_idx < Len(files)
    /\ file_idx' = file_idx + 1
    /\ volume_no' = files[file_idx + 1].volume_no
    /\ rows_done' = 0
    /\ IF files[file_idx + 1].has_columns
       THEN /\ translation_results' = <<>>
            /\ fallback_used' = FALSE
            /\ actual_volume_used' = files[file_idx + 1].volume_no
            /\ fallback_level1_count' = fallback_level1_count
            /\ fallback_level2_count' = fallback_level2_count
            /\ file_results' = file_results
            /\ pc' = "rows"
       ELSE /\ file_results' = Append(file_results, ErrorResult)
            /\ pc' = "next_file"
            /\ UNCHANGED <<translation_results, fallback_used, actual_volume_used,
                           fallback_level1_count, fallback_level2_count>>
    /\ UNCHANGED <<program, loaded_control_df, add_bos, vocab_has_fffd,
         max_tokens, control_df, files, all_translation_results,
                   overall_status, generate_calls, task, bud, fetch, herb, resume, single>>

\* process_file_translation_for_merge up to the start of the row loop.  A
\* file without the 'disease' or the 'section' column raises ValueError: the
\* file is reported with status 'error'.
ServerStartFile ==
    /\ program = "disaese_server" /\ pc = "next_file" /\ file_idx < Len(files)
    /\ file_idx' = file_idx + 1
    /\ volume_no' = files[file_idx + 1].volume_no
    /\ rows_done' = 0
    /\ IF files[file_idx + 1].has_columns
       THEN /\ translation_results' = <<>>
            /\ fallback_used' = FALSE
            /\ actual_volume_used' = files[file_idx + 1].volume_no
            /\ fallback_level1_count' = 0
            /\ fallback_level2_count' = 0
            /\ file_results' = file_results
            /\ pc' = "rows"
       ELSE /\ file_results' = Append(file_results, ErrorResult)
            /\ pc' = "next_file"
            /\ UNCHANGED <<translation_results, fallback_used, actual_volume_used,
                           fallback_level1_count, fallback_level2_count>>
    /\ UNCHANGED <<program, loaded_control_df, add_bos, vocab_has_fffd,
         max_tokens, control_df, files, all_translation_results,
                   overall_status, generate_calls, task, bud, fetch, herb, resume, single>>

ServerProcessRow_count_mutant ==
    /\ program = "disaese_server" /\ pc = "rows"
    /\ rows_done < Len(files[file_idx].rows)
    /\ \E response \in Responses :
        LET t == iteration(files[file_idx].rows[rows_done + 1], response)
        IN  /\ task' = t
            /\ rows_done' = rows_done + 1
            /\ fallback_used' = t.fallback_used
            /\ actual_volume_used' = t.actual_volume_used
            /\ fallback_level1_count' =
                 fallback_level1_count + (IF t.branch \in {"same_volume", "nearest"} THEN 1 ELSE 0)
            /\ fallback_level2_count' =
                 fallback_level2_count + (IF t.branch = "nearest" THEN 1 ELSE 0)
            /\ generate_calls' = generate_calls + (IF t.outcome = "translated" THEN 1 ELSE 0)
            /\ translation_results' =
                 IF t.outcome = "translated"
                 THEN Append(translation_results, ServerRecord(t))
                 ELSE translation_results
            /\ IF t.outcome = "raised"
               THEN /\ file_results' = Append(file_results, ErrorResult)
                    /\ pc' = "next_file"
               ELSE /\ file_results' = file_results
                    /\ pc' = "rows"
    /\ UNCHANGED <<program, loaded_control_df, add_bos, vocab_has_fffd,
         max_tokens, control_df, files, file_idx, volume_no,
                   all_translation_results, overall_status, bud, fetch, herb, resume, single>>

ServerProcessRow_keep_partial_mutant ==
    /\ program = "disaese_server" /\ pc = "rows"
    /\ rows_done < Len(files[file_idx].rows)
    /\ \E response \in Responses :
        LET t == iteration(files[file_idx].rows[rows_done + 1], response)
        IN  /\ task' = t
            /\ rows_done' = rows_done + 1
            /\ fallback_used' = t.fallback_used
            /\ actual_volume_used' = t.actual_volume_used
            /\ fallback_level1_count' =
                 fallback_level1_count + (IF t.branch = "same_volume" THEN 1 ELSE 0)
            /\ fallback_level2_count' =
                 fallback_level2_count + (IF t.branch = "nearest" THEN 1 ELSE 0)
            /\ generate_calls' = generate_calls + (IF t.outcome = "translated" THEN 1 ELSE 0)
            /\ translation_results' =
                 IF t.outcome = "translated"
                 THEN Append(translation_results, ServerRecord(t))
                 ELSE translation_results
            /\ IF t.outcome = "raised"
               THEN /\ file_results' = Append(file_results, ErrorResult)
                    /\ all_translation_results' = all_translation_results \o translation_results
                    /\ pc' = "next_file"
               ELSE /\ file_results' = file_results
                    /\ all_translation_results' = all_translation_results
                    /\ pc' = "rows"
    /\ UNCHANGED <<program, loaded_control_df, add_bos, vocab_has_fffd,
         max_tokens, control_df, files, file_idx, volume_no,
                   overall_status, bud, fetch, herb, resume, single>>

\* One iteration of the row loop of _process_file_core_translation.  An
\* exception leaves the loop: the file is reported with status 'error' and
\* process_all_files goes on with the next file.
ServerProcessRow ==
    /\ program = "disaese_server" /\ pc = "rows"
    /\ rows_done < Len(files[file_idx].rows)
    /\ \E response \in Responses :
        LET t == iteration(files[file_idx].rows[rows_done + 1], response)
        IN  /\ task' = t
            /\ rows_done' = rows_done + 1
            /\ fallback_used' = t.fallback_used
            /\ actual_volume_used' = t.actual_volume_used
            /\ fallback_level1_count' =
                 fallback_level1_count + (IF t.branch = "same_volume" THEN 1 ELSE 0)
            /\ fallback_level2_count' =
                 fallback_level2_count + (IF t.branch = "nearest" THEN 1 ELSE 0)
            /\ generate_calls' = generate_calls + (IF t.outcome = "translated" THEN 1 ELSE 0)
            /\ translation_results' =
                 IF t.outcome = "translated"
                 THEN Append(translation_results, ServerRecord(t))
                 ELSE translation_results
            /\ IF t.outcome = "raised"
               THEN /\ file_results' = Append(file_results, ErrorResult)
                    /\ pc' = "next_file"
               ELSE /\ file_results' = file_results
                    /\ pc' = "rows"
    /\ UNCHANGED <<program, loaded_control_df, add_bos, vocab_has_fffd,
         max_tokens, control_df, files, file_idx, volume_no,
                   all_translation_results, overall_status, bud, fetch, herb, resume, single>>

ServerFileDone_prepend_mutant ==
    /\ program = "disaese_server" /\ pc = "rows"
    /\ rows_done = Len(files[file_idx].rows)
    /\ file_results' = Append(file_results,
         [status |-> IF fallback_used THEN "warning" ELSE "success",
          volume_no |-> volume_no,
          translation_results |-> translation_results,
          fallback_used |-> fallback_used,
          actual_volume_used |-> IF fallback_used THEN actual_volume_used ELSE volume_no])
    /\ all_translation_results' = translation_results \o all_translation_results
    /\ pc' = "next_file"
    /\ UNCHANGED <<program, loaded_control_df, add_bos, vocab_has_fffd,
         max_tokens, control_df, files, file_idx, rows_done,
                   volume_no, translation_results, fallback_used, actual_volume_used,
                   fallback_level1_count, fallback_level2_count, overall_status,
                   generate_calls, task, bud, fetch, herb, resume, single>>

\* End of the row loop: the result dict is returned and merged.
ServerFileDone ==
    /\ program = "disaese_server" /\ pc = "rows"
    /\ rows_done = Len(files[file_idx].rows)
    /\ file_results' = Append(file_results,
         [status |-> IF fallback_used THEN "warning" ELSE "success",
          volume_no |-> volume_no,
          translation_results |-> translation_results,
          fallback_used |-> fallback_used,
          actual_volume_used |-> IF fallback_used THEN actual_volume_used ELSE volume_no])
    /\ all_translation_results' = all_translation_results \o translation_results
    /\ pc' = "next_file"
    /\ UNCHANGED <<program, loaded_control_df, add_bos, vocab_has_fffd,
         max_tokens, control_df, files, file_idx, rows_done,
                   volume_no, translation_results, fallback_used, actual_volume_used,
                   fallback_level1_count, fallback_level2_count, overall_status,
                   generate_calls, task, bud, fetch, herb, resume, single>>

CountStatus(results, status) == Cardinality({i \in DOMAIN results : results[i].status = status})

\* After the last file: the overall status of process_all_files.
ServerBatchDone ==
    /\ program = "disaese_server" /\ pc = "next_file" /\ file_idx = Len(files)
    /\ LET error_count == CountStatus(file_results, "error")
           warning_count == CountStatus(file_results, "warning")
           files_processed == Len(file_results) - error_count
           success_count == files_processed - warning_count
       IN  overall_status' =
             IF error_count = 0 /\ warning_count = 0 THEN "success"
             ELSE IF error_count = 0 THEN "warning"
             ELSE IF success_count > 0 THEN "partial_success" ELSE "error"
    /\ pc' = "done"
    /\ UNCHANGED <<program, loaded_control_df, add_bos, vocab_has_fffd,
         max_tokens, control_df, files, file_idx, rows_done,
                   volume_no, translation_results, fallback_used, actual_volume_used,
                   fallback_level1_count, fallback_level2_count, all_translation_results,
                   file_results, generate_calls, task, bud, fetch, herb, resume, single>>

\* ---------------------------------------------------------------- server: process_file_translation
\* One direct call of process_file_translation(filename): the same row loop as
\* the batch, ended by a workbook of its own and a result dict without the
\* records.  In the result 0 stands for None (volume_no, output_file) and for
\* an absent 'fallback_context_volume' key; a written workbook is named by
\* the volume of its file name.
SingleIdle == [pc |-> "idle", result |-> NaN, workbook |-> NaN]

SingleError == [status |-> "error", message |-> "failed", volume_no |-> 0,
                translated_terms |-> 0, output_file |-> 0, fallback_context_volume |-> 0]

\* The result dict built after the row loop.
single_result(results, volume, used, actual_volume) ==
    IF results # <<>>
    THEN [status |-> IF used THEN "warning" ELSE "success",
          message |-> IF used THEN "completed_with_fallback" ELSE "completed",
          volume_no |-> volume,
          translated_terms |-> Len(results),
          output_file |-> volume,
          fallback_context_volume |-> IF used THEN actual_volume ELSE 0]
    ELSE [status |-> "warning", message |-> "no_terms", volume_no |-> volume,
          translated_terms |-> 0, output_file |-> 0, fallback_context_volume |-> 0]

\* process_file_translation up to the start of the row loop.
SingleStartFile ==
    /\ program = "disaese_server" /\ single.pc = "call"
    /\ \E f \in DOMAIN files :
         /\ file_idx' = f
         /\ volume_no' = files[f].volume_no
         /\ rows_done' = 0
         /\ IF files[f].has_columns
            THEN /\ translation_results' = <<>>
                 /\ fallback_used' = FALSE
                 /\ actual_volume_used' = files[f].volume_no
                 /\ fallback_level1_count' = 0
                 /\ fallback_level2_count' = 0
                 /\ single' = [single EXCEPT !.pc = "rows"]
            ELSE /\ single' = [single EXCEPT !.pc = "returned", !.result = SingleError]
                 /\ UNCHANGED <<translation_results, fallback_used, actual_volume_used,
                                fallback_level1_count, fallback_level2_count>>
    /\ UNCHANGED <<program, loaded_control_df, add_bos, vocab_has_fffd,
         max_tokens, control_df, files, pc,
                   all_translation_results, file_results, overall_status, generate_calls,
                   task, bud, fetch, herb, resume>>

\* One iteration of the row loop of _process_file_core_translation; an
\* exception is re-raised by the core and caught by process_file_translation.
SingleProcessRow ==
    /\ program = "disaese_server" /\ single.pc = "rows"
    /\ rows_done < Len(files[file_idx].rows)
    /\ \E response \in Responses :
        LET t == iteration(files[file_idx].rows[rows_done + 1], response)
        IN  /\ task' = t
            /\ rows_done' = rows_done + 1
            /\ fallback_used' = t.fallback_used
            /\ actual_volume_used' = t.actual_volume_used
            /\ fallback_level1_count' =
                 fallback_level1_count + (IF t.branch = "same_volume" THEN 1 ELSE 0)
            /\ fallback_level2_count' =
                 fallback_level2_count + (IF t.branch = "nearest" THEN 1 ELSE 0)
            /\ generate_calls' = generate_calls + (IF t.outcome = "translated" THEN 1 ELSE 0)
            /\ translation_results' =
                 IF t.outcome = "translated"
                 THEN Append(translation_results, ServerRecord(t))
                 ELSE translation_results
            /\ single' = IF t.outcome = "raised"
                         THEN [single EXCEPT !.pc = "returned", !.result = SingleError]
                         ELSE single
    /\ UNCHANGED <<program, loaded_control_df, add_bos, vocab_has_fffd,
         max_tokens, control_df, files, pc, file_idx, volume_no,
                   all_translation_results, file_results, overall_status, bud, fetch, herb,
                   resume>>

\* End of the row loop: the workbook is written when there are records, and
\* the result dict is returned.
SingleFileDone ==
    /\ program = "disaese_server" /\ single.pc = "rows"
    /\ rows_done = Len(files[file_idx].rows)
    /\ single' = [pc |-> "returned",
                  result |-> single_result(translation_results, volume_no, fallback_used,
                                           actual_volume_used),
                  workbook |-> IF translation_results # <<>> THEN translation_results
                               ELSE single.workbook]
    /\ UNCHANGED <<program, loaded_control_df, add_bos, vocab_has_fffd,
         max_tokens, control_df, files, pc, file_idx, rows_done,
                   volume_no, translation_results, fallback_used, actual_volume_used,
                   fallback_level1_count, fallback_level2_count, all_translation_results,
                   file_results, overall_status, generate_calls, task, bud, fetch, herb,
                   resume>>

\* ---------------------------------------------------------------- script: main
\* Steps 1-3 of main: the control table keeps only the rows whose volume
\* number has a target file.
ScriptScanFiles ==
    /\ program = "translation_disaese" /\ pc = "start"
    /\ control_df' = SelectSeq(control_df,
                        LAMBDA r : \E k \in DOMAIN files : files[k].volume_no = r.no)
    /\ pc' = "next_file"
    /\ UNCHANGED <<program, loaded_control_df, add_bos, vocab_has_fffd,
         max_tokens, files, file_idx, rows_done,
                   volume_no, translation_results, fallback_used, actual_volume_used,
                   fallback_level1_count, fallback_level2_count, all_translation_results,
                   file_results, overall_status, generate_calls, task, bud, fetch, herb, resume, single>>

ScriptStartFile_refilter_mutant ==
    /\ program = "translation_disaese" /\ pc = "next_file" /\ file_idx < Len(files)
    /\ file_idx' = file_idx + 1
    /\ volume_no' = files[file_idx + 1].volume_no
    /\ rows_done' = 0
    /\ pc' = IF files[file_idx + 1].has_columns THEN "rows" ELSE "next_file"
    /\ control_df' = SelectSeq(control_df, LAMBDA r : r.no = files[file_idx + 1].volume_no)
    /\ UNCHANGED <<program, loaded_control_df, add_bos, vocab_has_fffd,
         max_tokens, files, translation_results,
                   fallback_used, actual_volume_used, fallback_level1_count,
                   fallback_level2_count, all_translation_results, file_results,
                   overall_status, generate_calls, task, bud, fetch, herb, resume, single>>

\* Start of one iteration of the file loop of main.  A file without the
\* 'disease' or the 'section' column is skipped.
ScriptStartFile ==
    /\ program = "translation_disaese" /\ pc = "next_file" /\ file_idx < Len(files)
    /\ file_idx' = file_idx + 1
    /\ volume_no' = files[file_idx + 1].volume_no
    /\ rows_done' = 0
    /\ pc' = IF files[file_idx + 1].has_columns THEN "rows" ELSE "next_file"
    /\ UNCHANGED <<program, loaded_control_df, add_bos, vocab_has_fffd,
         max_tokens, control_df, files, translation_results,
                   fallback_used, actual_volume_used, fallback_level1_count,
                   fallback_level2_count, all_translation_results, file_results,
                   overall_status, generate_calls, task, bud, fetch, herb, resume, single>>

\* One iteration of the row loop of main.  An exception leaves the row loop:
\* it is caught per file and main goes on with the next file.
ScriptProcessRow ==
    /\ program = "translation_disaese" /\ pc = "rows"
    /\ rows_done < Len(files[file_idx].rows)
    /\ \E response \in Responses :
        LET t == iteration(files[file_idx].rows[rows_done + 1], response)
        IN  /\ task' = t
            /\ rows_done' = rows_done + 1
            /\ fallback_used' = t.fallback_used
            /\ generate_calls' = generate_calls + (IF t.outcome = "translated" THEN 1 ELSE 0)
            /\ translation_results' =
                 IF t.outcome = "translated"
                 THEN Append(translation_results, ScriptRecord(t))
                 ELSE translation_results
            /\ pc' = IF t.outcome = "raised" THEN "next_file" ELSE "rows"
    /\ UNCHANGED <<program, loaded_control_df, add_bos, vocab_has_fffd,
         max_tokens, control_df, files, file_idx, volume_no,
                   actual_volume_used, fallback_level1_count, fallback_level2_count,
                   all_translation_results, file_results, overall_status, bud, fetch, herb, resume, single>>

ScriptFileDone ==
    /\ program = "translation_disaese" /\ pc = "rows"
    /\ rows_done = Len(files[file_idx].rows)
    /\ pc' = "next_file"
    /\ UNCHANGED <<program, loaded_control_df, add_bos, vocab_has_fffd,
         max_tokens, control_df, files, file_idx, rows_done,
                   volume_no, translation_results, fallback_used, actual_volume_used,
                   fallback_level1_count, fallback_level2_count, all_translation_results,
                   file_results, overall_status, generate_calls, task, bud, fetch, herb, resume, single>>

\* Step 5 of main: the report is written when there is any result.
ScriptReport ==
    /\ program = "translation_disaese" /\ pc = "next_file" /\ file_idx = Len(files)
    /\ pc' = "done"
    /\ UNCHANGED <<program, loaded_control_df, add_bos, vocab_has_fffd,
         max_tokens, control_df, files, file_idx, rows_done,
                   volume_no, translation_results, fallback_used, actual_volume_used,
                   fallback_level1_count, fallback_level2_count, all_translation_results,
                   file_results, overall_status, generate_calls, task, bud, fetch, herb, resume, single>>

\* ---------------------------------------------------------------- stand-alone budgeter call
BudgetIdle == [pc |-> "idle", context_paragraph |-> NaN, term |-> NaN, result |-> NaN]

TruncateCall ==
    /\ bud.pc = "call"
    /\ bud' = [bud EXCEPT !.pc = "returned",
                          !.result = truncate_context_if_needed(bud.context_paragraph, bud.term)]
    /\ UNCHANGED <<program, loaded_control_df, add_bos, vocab_has_fffd,
         max_tokens, control_df, files, pc, file_idx, rows_done,
                   volume_no, translation_results, fallback_used, actual_volume_used,
                   fallback_level1_count, fallback_level2_count, all_translation_results,
                   file_results, overall_status, generate_calls, task, fetch, herb, resume, single>>

\* ---------------------------------------------------------------- SymMap batch fetch
\* What one call of get_ingredient_targets gives: it raises (the cache file
\* cannot be read), it returns None or an empty answer, it returns an answer
\* without 'targets', or it returns a dict whose 'targets' is a list; a
\* target is a dict (named by its gene_id) or something without .get ("oops").
Targets == {"g", "oops"}

FetchOutcomes ==
    [kind : {"raises", "falsy", "other_data"}, targets : {<<>>}]
    \cup [kind : {"targets"}, targets : SeqsUpTo(Targets, MaxTargets)]

FetchIdle == [pc |-> "idle", mol_ids |-> <<>>, max_retries |-> 0, pos |-> 0,
              retry_count |-> 0, success |-> FALSE, attempts |-> 0, results |-> <<>>]

\* for mol_id in mol_ids: retry_count = 0; success = False
FetchNextMol ==
    /\ fetch.pc = "for" /\ fetch.pos < Len(fetch.mol_ids)
    /\ fetch' = [fetch EXCEPT !.pos = @ + 1, !.retry_count = 0, !.success = FALSE,
                              !.attempts = 0, !.pc = "while"]
    /\ UNCHANGED <<batchVars, herb, resume>>

\* for target in data['targets']: results.append({...}); target.get raises on
\* a target that is no dict, after the records of the targets before it.
RECURSIVE append_targets(_, _, _)
append_targets(results, mol_id, targets) ==
    IF targets = <<>> THEN [results |-> results, raised |-> FALSE]
    ELSE IF Head(targets) = "oops" THEN [results |-> results, raised |-> TRUE]
    ELSE append_targets(Append(results, [Mol_id |-> mol_id, Gene_id |-> Head(targets)]),
                        mol_id, Tail(targets))

\* The body of the while loop for one answer of get_ingredient_targets.
fetch_attempt(f, outcome) ==
    LET g == [f EXCEPT !.attempts = @ + 1]
        appended == append_targets(f.results, f.mol_ids[f.pos], outcome.targets)
    IN  IF outcome.kind = "raises" THEN [g EXCEPT !.retry_count = @ + 1]
        ELSE IF outcome.kind = "falsy" THEN g
        ELSE IF outcome.kind = "other_data" THEN [g EXCEPT !.success = TRUE]
        ELSE IF appended.raised
             THEN [g EXCEPT !.results = appended.results, !.retry_count = @ + 1]
             ELSE [g EXCEPT !.results = appended.results, !.success = TRUE]

\* One iteration of `while retry_count < max_retries and not success`: one
\* call of get_ingredient_targets.  attempts counts the calls for the current
\* mol_id; the code keeps no such counter and sets no limit to it, the model
\* follows a mol_id for MaxAttempts calls.
FetchAttempt ==
    /\ fetch.pc = "while"
    /\ fetch.retry_count < fetch.max_retries /\ ~fetch.success
    /\ fetch.attempts < MaxAttempts
    /\ \E outcome \in FetchOutcomes : fetch' = fetch_attempt(fetch, outcome)
    /\ UNCHANGED <<batchVars, herb, resume>>

\* The while condition is false: on to the next mol_id.
FetchWhileExit ==
    /\ fetch.pc = "while"
    /\ ~(fetch.retry_count < fetch.max_retries /\ ~fetch.success)
    /\ fetch' = [fetch EXCEPT !.pc = "for"]
    /\ UNCHANGED <<batchVars, herb, resume>>

\* After the last mol_id: the DataFrame of the results is returned.
FetchReturn ==
    /\ fetch.pc = "for" /\ fetch.pos = Len(fetch.mol_ids)
    /\ fetch' = [fetch EXCEPT !.pc = "returned"]
    /\ UNCHANGED <<batchVars, herb, resume>>

\* ---------------------------------------------------------------- translate_to_english
\* The texts translate_to_english returns on failure.
ERROR_PREFIX == <<"[", "E", "R", "R", "O", "R">>
InputTooLong == ERROR_PREFIX \o <<":", "L">>
TranslationFailed == ERROR_PREFIX \o <<":", "F">>
MaxRetriesExceeded == ERROR_PREFIX \o <<":", "M">>

\* result.split('\n')[0]
RECURSIVE first_line(_)
first_line(text) ==
    IF text = <<>> \/ Head(text) = "\n" THEN <<>>
    ELSE <<Head(text)>> \o first_line(Tail(text))

\* response.strip(), then the first line, stripped, when there are several
clean(response) ==
    LET result == strip(response)
    IN  IF \E c \in DOMAIN result : result[c] = "\n"
        THEN strip(first_line(result)) ELSE result

HerbIdle == [pc |-> "idle", max_retries |-> 0, too_long |-> FALSE, attempt |-> 0,
             generate_calls |-> 0, event |-> "none", response |-> NaN, result |-> NaN]

herb_return(h, event, result) == [h EXCEPT !.pc = "returned", !.event = event, !.result = result]

\* except Exception: the last attempt returns, any other attempt goes on
herb_except(h, event) ==
    IF h.attempt = h.max_retries - 1
    THEN herb_return(h, event, TranslationFailed)
    ELSE [h EXCEPT !.attempt = @ + 1, !.event = event]

translate_attempt_retry_too_long_mutant(h, event, response) ==
    IF event = "tokenize_raises" THEN herb_except(h, event)
    ELSE IF h.too_long THEN [h EXCEPT !.attempt = @ + 1, !.event = "too_long"]
    ELSE
    LET g == [h EXCEPT !.generate_calls = @ + 1]
    IN  IF event = "generate_raises" THEN herb_except(g, event)
        ELSE LET result == clean(response)
                 r == [g EXCEPT !.response = response]
             IN  IF result # <<>> /\ Len(result) > 0 /\ ~startswith(result, ERROR_PREFIX)
                 THEN herb_return(r, event, result)
                 ELSE [r EXCEPT !.attempt = @ + 1, !.event = event]

\* The body of `for attempt in range(max_retries)`: the chat template is
\* applied (it may raise), the input length is checked, the model generates
\* (it may raise), the response is decoded, cleaned and validated.
translate_attempt(h, event, response) ==
    IF event = "tokenize_raises" THEN herb_except(h, event)
    ELSE IF h.too_long THEN herb_return(h, "too_long", InputTooLong)
    ELSE
    LET g == [h EXCEPT !.generate_calls = @ + 1]
    IN  IF event = "generate_raises" THEN herb_except(g, event)
        ELSE LET result == clean(response)
                 r == [g EXCEPT !.response = response]
             IN  IF result # <<>> /\ Len(result) > 0 /\ ~startswith(result, ERROR_PREFIX)
                 THEN herb_return(r, event, result)
                 ELSE [r EXCEPT !.attempt = @ + 1, !.event = event]

HerbEvents == {"tokenize_raises", "generate_raises", "decoded"}
HerbResponses ==
    { <<"G">>, <<" ", "G", "\n">>, <<"G", " ", "\n", "H">>, <<>>, <<" ", "\n">>,
      ERROR_PREFIX \o <<"x">>, <<"\n">> \o ERROR_PREFIX, <<"G", "\n">> \o ERROR_PREFIX,
      <<"G", "\r", "\n", "H">>, <<"\t", "\\u3000">> }

HerbAttempt ==
    /\ herb.pc = "for" /\ herb.attempt < herb.max_retries
    /\ \E event \in HerbEvents, response \in HerbResponses :
         herb' = translate_attempt(herb, event, response)
    /\ UNCHANGED <<batchVars, fetch, resume>>

\* The for loop ran out of attempts.
HerbLoopEnd ==
    /\ herb.pc = "for" /\ herb.attempt = herb.max_retries
    /\ herb' = herb_return(herb, "loop_end", MaxRetriesExceeded)
    /\ UNCHANGED <<batchVars, fetch, resume>>

\* ---------------------------------------------------------------- resumable translation
\* translate_herbs_to_english_resume.py: main, load_progress, save_progress.
\* A translation is named by the row it translates; the progress file is
\* "absent", "saved" (it holds a document) or "torn" (opened for writing and
\* not yet dumped).
NoProgress == [completed |-> <<>>, last_index |-> -1]

Absent == [state |-> "absent", progress |-> NoProgress]
Torn == [state |-> "torn", progress |-> NoProgress]
Saved(progress) == [state |-> "saved", progress |-> progress]

ResumeIdle == [pc |-> "idle", total |-> 0, batch_size |-> 1, runs |-> 0, idx |-> 0,
               english_names |-> <<>>, file |-> Absent, output |-> NaN]

\* load_progress, then the choice of start_idx and english_names; json.load
\* raises on a file that holds no complete document.
ResumeStart ==
    /\ resume.pc \in {"start", "interrupted"}
    /\ resume.runs < MaxRuns
    /\ resume' =
         IF resume.file.state = "torn"
         THEN [resume EXCEPT !.pc = "load_failed", !.runs = @ + 1]
         ELSE LET progress == IF resume.file.state = "absent" THEN NoProgress
                              ELSE resume.file.progress
                  start_idx == progress.last_index + 1
              IN  [resume EXCEPT !.pc = "loop", !.runs = @ + 1, !.idx = start_idx,
                                 !.english_names =
                                    IF start_idx > 0 THEN progress.completed ELSE <<>>]
    /\ UNCHANGED <<batchVars, fetch, herb>>

\* One iteration of `for idx in range(start_idx, total)` up to the save.
ResumeTranslate ==
    /\ resume.pc = "loop" /\ resume.idx < resume.total
    /\ resume' = [resume EXCEPT
                    !.english_names = Append(@, resume.idx),
                    !.idx = IF (resume.idx + 1) % resume.batch_size = 0 THEN @ ELSE @ + 1,
                    !.pc = IF (resume.idx + 1) % resume.batch_size = 0
                           THEN "save_open" ELSE "loop"]
    /\ UNCHANGED <<batchVars, fetch, herb>>

\* save_progress: open(PROGRESS_FILE, 'w') empties the file ...
ResumeSaveOpen ==
    /\ resume.pc = "save_open"
    /\ resume' = [resume EXCEPT !.file = Torn, !.pc = "save_dump"]
    /\ UNCHANGED <<batchVars, fetch, herb>>

\* ... and json.dump followed by the close writes the document.
ResumeSaveDump ==
    /\ resume.pc = "save_dump"
    /\ resume' = [resume EXCEPT
                    !.file = Saved([completed |-> resume.english_names,
                                    last_index |-> resume.idx]),
                    !.idx = @ + 1, !.pc = "loop"]
    /\ UNCHANGED <<batchVars, fetch, herb>>

\* The loop is over: the column is assigned and the workbook written.
ResumeWriteOutput ==
    /\ resume.pc = "loop" /\ resume.idx >= resume.total
    /\ resume' = [resume EXCEPT !.output = resume.english_names, !.pc = "stats"]
    /\ UNCHANGED <<batchVars, fetch, herb>>

\* The statistics: success_count / total raises ZeroDivisionError on a table
\* without rows, and main ends there.
ResumeStatistics ==
    /\ resume.pc = "stats"
    /\ resume' = [resume EXCEPT !.pc = IF resume.total = 0 THEN "raised" ELSE "cleanup"]
    /\ UNCHANGED <<batchVars, fetch, herb>>

\* if os.path.exists(PROGRESS_FILE): os.remove(PROGRESS_FILE)
ResumeCleanup ==
    /\ resume.pc = "cleanup"
    /\ resume' = [resume EXCEPT !.file = Absent, !.pc = "tail"]
    /\ UNCHANGED <<batchVars, fetch, herb>>

\* The rest of main: memory is released and the result is printed.
ResumeFinish ==
    /\ resume.pc = "tail"
    /\ resume' = [resume EXCEPT !.pc = "done"]
    /\ UNCHANGED <<batchVars, fetch, herb>>

\* The process is stopped; what it held in memory is lost, the files stay.
ResumeInterrupt ==
    /\ resume.pc \in {"loop", "save_open", "save_dump", "stats", "cleanup", "tail"}
    /\ resume' = [resume EXCEPT !.pc = "interrupted", !.idx = 0, !.english_names = <<>>]
    /\ UNCHANGED <<batchVars, fetch, herb>>

\* ---------------------------------------------------------------- inputs and specifications
Programs == {"disaese_server", "translation_disaese"}
Volumes == 1..3
Sections == {<<"i">>, <<"b">>}
Paragraphs == {<<"a", "b">>}
ControlRecords == [no : Volumes, section : Sections, disease_content : Paragraphs \cup {NaN}]
Tables == SeqsUpTo(ControlRecords, MaxTable)

\* Budgets tried in the batch runs: a small one and a large one.
LowBudget == 3
HighBudget == 9

\* A target file: the volume number of its name, its rows, and whether it
\* has both the 'disease' and the 'section' column.
TargetFile(v, rows) == [volume_no |-> v, rows |-> rows, has_columns |-> TRUE]
BrokenFile(v) == [volume_no |-> v, rows |-> <<>>, has_columns |-> FALSE]
Row(disease, section) == [disease |-> disease, section |-> section]

\* Folders of the lookup runs: a file with one valid row, possibly followed by
\* files of other volumes without rows.
LookupFolders ==
    LET first == {TargetFile(v, <<Row(<<"x">>, s)>>) : v \in Volumes, s \in Sections}
    IN  {<<f>> : f \in first}
        \cup {<<f, TargetFile(w, <<>>)>> : f \in first, w \in Volumes}
        \cup {<<f, TargetFile(w, <<>>), TargetFile(u, <<>>)>> :
                f \in first, w \in Volumes, u \in Volumes}

InitBatchState ==
    /\ loaded_control_df = control_df
    /\ pc = "start"
    /\ file_idx = 0
    /\ rows_done = 0
    /\ volume_no = 0
    /\ translation_results = <<>>
    /\ fallback_used = FALSE
    /\ actual_volume_used = 0
    /\ fallback_level1_count = 0
    /\ fallback_level2_count = 0
    /\ all_translation_results = <<>>
    /\ file_results = <<>>
    /\ overall_status = "none"
    /\ generate_calls = 0
    /\ task = NoTask

Init ==
    /\ program \in Programs
    /\ add_bos \in BOOLEAN
    /\ vocab_has_fffd = TRUE
    /\ max_tokens \in {LowBudget, HighBudget}
    /\ control_df \in Tables
    /\ files \in {fs \in LookupFolders :
                    \A i, j \in DOMAIN fs : i # j => fs[i].volume_no # fs[j].volume_no}
    /\ InitBatchState
    /\ bud = BudgetIdle
    /\ single = SingleIdle
    /\ fetch = FetchIdle /\ herb = HerbIdle /\ resume = ResumeIdle

Next ==
    \/ ServerFindFiles
    \/ ServerStartFile
    \/ ServerProcessRow
    \/ ServerFileDone
    \/ ServerBatchDone
    \/ ScriptScanFiles
    \/ ScriptStartFile
    \/ ScriptProcessRow
    \/ ScriptFileDone
    \/ ScriptReport

Spec == Init /\ [][Next]_vars

\* Stand-alone calls of truncate_context_if_needed on every context of at most
\* MaxLen characters, three terms and every budget up to MaxBudget.
BudgetContexts == SeqsUpTo({"a", "b", "w"}, MaxLen) \ {<<>>}
BudgetTerms == {<<"x">>, <<"x", "y">>, <<"a", "b">>}

InitBudget ==
    /\ program \in Programs
    /\ add_bos \in BOOLEAN
    /\ vocab_has_fffd \in BOOLEAN
    /\ max_tokens \in 0..MaxBudget
    /\ control_df = <<>>
    /\ files = <<>>
    /\ InitBatchState
    /\ \E c \in BudgetContexts, t \in BudgetTerms :
         bud = [pc |-> "call", context_paragraph |-> c, term |-> t, result |-> NaN]
    /\ single = SingleIdle
    /\ fetch = FetchIdle /\ herb = HerbIdle /\ resume = ResumeIdle

NextBudget == TruncateCall

SpecBudget == InitBudget /\ [][NextBudget]_vars

\* Batch runs over folders of one or two files whose rows include rows without
\* a term or a section, blank cells and terms with the leading ZHI, against a
\* few control tables: none, one record, records without content, records of
\* other volumes, a record whose content is a number.
MaxRows == 2        \* rows of the first target file (batch runs)

ControlRecord(no, section, content) ==
    [no |-> no, section |-> section, disease_content |-> content]

BatchTables ==
    { <<>>,
      <<ControlRecord(1, <<"i">>, <<"a", "b">>)>>,
      <<ControlRecord(1, <<"i">>, NaN), ControlRecord(1, <<"b">>, <<"a", "b">>)>>,
      <<ControlRecord(3, <<"b">>, <<"a", "b">>), ControlRecord(2, <<"i">>, NaN)>>,
      <<ControlRecord(3, <<"i">>, NaN), ControlRecord(1, <<"b">>, <<"a", "b">>),
        ControlRecord(1, <<"b">>, NaN)>>,
      <<ControlRecord(1, <<"i">>, <<"a", "b">>), ControlRecord(1, <<"b">>, Number)>> }

BatchRows ==
    { Row(<<"x">>, <<"i">>), Row(<<"y">>, <<"b">>),
      Row(NaN, <<"i">>), Row(<<"x">>, NaN),
      Row(<<" ">>, <<"b">>), Row(<<"x">>, <<" ">>),
      Row(<<ZHI>>, <<"i">>) }

BatchFolders ==
    LET first == {TargetFile(v, rows) : v \in 1..2, rows \in SeqsUpTo(BatchRows, MaxRows)}
                 \cup {BrokenFile(1)}
        second == {TargetFile(3, <<>>), TargetFile(3, <<Row(<<"x">>, <<"i">>)>>),
                   TargetFile(3, <<Row(<<"y">>, <<"b">>)>>), BrokenFile(3)}
    IN  {<<f>> : f \in first} \cup {<<f, g>> : f \in first, g \in second}

InitBatch ==
    /\ program \in Programs
    /\ add_bos = TRUE
    /\ vocab_has_fffd = TRUE
    /\ max_tokens = HighBudget
    /\ control_df \in BatchTables
    /\ files \in BatchFolders
    /\ InitBatchState
    /\ bud = BudgetIdle
    /\ single = SingleIdle
    /\ fetch = FetchIdle /\ herb = HerbIdle /\ resume = ResumeIdle

SpecBatch == InitBatch /\ [][Next]_vars

\* One call of process_file_translation on a file of the folder.
InitSingle ==
    /\ program = "disaese_server"
    /\ add_bos = TRUE
    /\ vocab_has_fffd = TRUE
    /\ max_tokens = HighBudget
    /\ control_df \in BatchTables
    /\ files \in BatchFolders
    /\ InitBatchState
    /\ bud = BudgetIdle
    /\ single = [SingleIdle EXCEPT !.pc = "call"]
    /\ fetch = FetchIdle /\ herb = HerbIdle /\ resume = ResumeIdle

NextSingle ==
    \/ SingleStartFile
    \/ SingleProcessRow
    \/ SingleFileDone

SpecSingle == InitSingle /\ [][NextSingle]_vars

\* Runs on one file of one row whose term is any text of at most MaxTerm
\* characters among ZHI, LIAO, a letter and a blank.
MaxTerm == 3        \* characters in a term (term runs)

TermTexts == SeqsUpTo({ZHI, LIAO, "x", " ", "\t", "\\u3000"}, MaxTerm)

InitTerms ==
    /\ program \in Programs
    /\ add_bos = TRUE
    /\ vocab_has_fffd = TRUE
    /\ max_tokens = HighBudget
    /\ control_df = <<ControlRecord(1, <<"i">>, <<"a", "b">>)>>
    /\ \E term \in TermTexts : files = <<TargetFile(1, <<Row(term, <<"i">>)>>)>>
    /\ InitBatchState
    /\ bud = BudgetIdle
    /\ single = SingleIdle
    /\ fetch = FetchIdle /\ herb = HerbIdle /\ resume = ResumeIdle

SpecTerms == InitTerms /\ [][Next]_vars

\* The batch variables of a run that translates no file.
InitNoBatch ==
    /\ program = "server"
    /\ add_bos = TRUE
    /\ vocab_has_fffd = TRUE
    /\ max_tokens = HighBudget
    /\ control_df = <<>>
    /\ files = <<>>
    /\ InitBatchState
    /\ bud = BudgetIdle
    /\ single = SingleIdle

\* batch_fetch_ingredient_targets(mol_ids, delay, max_retries)
InitFetch ==
    /\ InitNoBatch
    /\ \E mol_ids \in SeqsUpTo(1..2, MaxMols), max_retries \in 1..MaxRetries :
         fetch = [FetchIdle EXCEPT !.pc = "for", !.mol_ids = mol_ids,
                                   !.max_retries = max_retries]
    /\ herb = HerbIdle /\ resume = ResumeIdle

NextFetch ==
    \/ FetchNextMol
    \/ FetchAttempt
    \/ FetchWhileExit
    \/ FetchReturn

SpecFetch == InitFetch /\ [][NextFetch]_vars

\* translate_to_english(herb_name, tokenizer, model, max_retries)
InitHerb ==
    /\ InitNoBatch
    /\ \E max_retries \in 0..MaxRetries, too_long \in BOOLEAN :
         herb = [HerbIdle EXCEPT !.pc = "for", !.max_retries = max_retries,
                                 !.too_long = too_long]
    /\ fetch = FetchIdle /\ resume = ResumeIdle

NextHerb ==
    \/ HerbAttempt
    \/ HerbLoopEnd

SpecHerb == InitHerb /\ [][NextHerb]_vars

\* The resumable script on a table of `total` rows, saving every batch_size rows.
InitResume ==
    /\ InitNoBatch
    /\ \E total \in 0..MaxTotal, batch_size \in 1..MaxBatch :
         resume = [ResumeIdle EXCEPT !.pc = "start", !.total = total,
                                     !.batch_size = batch_size]
    /\ fetch = FetchIdle /\ herb = HerbIdle

NextResume ==
    \/ ResumeStart
    \/ ResumeTranslate
    \/ ResumeSaveOpen
    \/ ResumeSaveDump
    \/ ResumeWriteOutput
    \/ ResumeStatistics
    \/ ResumeCleanup
    \/ ResumeFinish
    \/ ResumeInterrupt

SpecResume == InitResume /\ [][NextResume]_vars

\* ================================================================ properties
\* The last iteration looked a context up (it was not filtered out before).
LookedUp == task.outcome \in {"translated", "empty_context", "no_context", "raised"}

IsServer == program = "disaese_server"

\* Records of the control table with the key of the last task.
HasKey(i) == control_df[i].no = task.volume_no /\ control_df[i].section = task.section
HasVolume(i) == control_df[i].no = task.volume_no
FirstWith(P(_)) == CHOOSE i \in DOMAIN control_df : P(i) /\ \A j \in DOMAIN control_df : P(j) => i <= j

\* A step that is one iteration of the row loop.
RowStep == rows_done' = rows_done + 1

\* An iteration that took the exact branch flags and counts no fallback.
ExactCountsNothing ==
    (RowStep /\ task'.branch = "exact") =>
        /\ fallback_level1_count' = fallback_level1_count
        /\ fallback_level2_count' = fallback_level2_count
        /\ fallback_used' = (IF IsServer THEN fallback_used ELSE FALSE)

\* C1 as stated: whenever the task's (volume, section) is the key of a control
\* record with non-empty content, the lookup is at level 0 and the context
\* passed on is the content of that record.
C1_AnyMatchingRecord ==
    \A i \in DOMAIN control_df :
        (LookedUp /\ HasKey(i) /\ ~isna(control_df[i].disease_content)) =>
            /\ task.branch = "exact"
            /\ task.outcome = "translated"
            /\ task.context_paragraph = control_df[i].disease_content

\* C1 amended: whenever the task's (volume, section) is the key of some
\* control record, the lookup is at level 0 (no fallback flagged or counted),
\* the context is the content of the first such record in table order, and
\* the task is translated with exactly that content when it is non-empty.
C1_FirstMatchState ==
    (LookedUp /\ \E i \in DOMAIN control_df : HasKey(i)) =>
        LET f == FirstWith(HasKey)
        IN  /\ task.branch = "exact"
            /\ task.row = f
            /\ task.context_paragraph = control_df[f].disease_content
            /\ task.actual_section_used = task.section
            /\ (task.outcome = "translated") = ~isna(control_df[f].disease_content)
            /\ ~IsServer => ~task.fallback_used

C1_FirstMatch == []C1_FirstMatchState /\ [][ExactCountsNothing]_vars

C1_Witness ==
    /\ task.branch = "exact" /\ task.outcome = "translated"
    /\ \E i \in DOMAIN control_df :
          /\ HasKey(i) /\ i # task.row
          /\ control_df[i].disease_content # task.context_paragraph

\* The volume whose content the last task used.
UsedVolume == control_df[task.row].no

\* C2 as stated: the volume is in the table without the requested section and
\* some record of the volume has content: level 1, same volume, translated.
C2_AnySameVolumeRecord ==
    (/\ LookedUp
     /\ \E i \in DOMAIN control_df : HasVolume(i)
     /\ ~\E i \in DOMAIN control_df : HasKey(i)
     /\ \E i \in DOMAIN control_df : HasVolume(i) /\ ~isna(control_df[i].disease_content)) =>
        /\ task.branch = "same_volume"
        /\ UsedVolume = task.volume_no
        /\ task.outcome = "translated"

\* C2 amended: when the volume is in the table without the requested section,
\* the lookup is at level 1 with the first record of that volume in table
\* order, the actual volume is the requested one, and the task is translated
\* exactly when that first record has non-empty content.
C2_FirstSameVolumeRecord ==
    (/\ LookedUp
     /\ \E i \in DOMAIN control_df : HasVolume(i)
     /\ ~\E i \in DOMAIN control_df : HasKey(i)) =>
        LET f == FirstWith(HasVolume)
        IN  /\ task.branch = "same_volume"
            /\ task.row = f
            /\ UsedVolume = task.volume_no
            /\ IsServer => task.actual_volume_used = task.volume_no
            /\ task.fallback_used
            /\ (task.outcome = "translated") = ~isna(control_df[f].disease_content)

C2_Witness ==
    /\ task.branch = "same_volume" /\ task.outcome = "translated"
    /\ \E i \in DOMAIN control_df : HasVolume(i) /\ i # task.row

\* The volumes of the control table as loaded.
LoadedVolumes == {loaded_control_df[i].no : i \in DOMAIN loaded_control_df}

\* C3: a task whose volume is not in the loaded, non-empty control table is
\* looked up at level 2, and the volume used is a volume of that table at
\* minimal distance from the requested volume.
C3_NearestVolume ==
    (/\ LookedUp
     /\ loaded_control_df # <<>>
     /\ task.volume_no \notin LoadedVolumes) =>
        /\ task.branch = "nearest"
        /\ task.row \in DOMAIN control_df
        /\ task.nearest_volume = UsedVolume
        /\ IsServer => task.actual_volume_used = UsedVolume
        /\ UsedVolume \in LoadedVolumes
        /\ \A v \in LoadedVolumes :
              Abs(UsedVolume - task.volume_no) <= Abs(v - task.volume_no)

\* C4: a fallback record is never used when an exact record exists, and a
\* record of another volume is never used when the volume is in the table.
C4_StrictPriority ==
    LookedUp =>
        /\ task.branch \in {"same_volume", "nearest"} =>
              ~\E i \in DOMAIN control_df : HasKey(i)
        /\ task.branch = "nearest" =>
              ~\E i \in DOMAIN control_df : HasVolume(i)
        /\ task.branch = "exact" => HasKey(task.row)
        /\ task.branch = "same_volume" => HasVolume(task.row)

C4_Witness ==
    /\ task.branch = "exact"
    /\ \E i \in DOMAIN control_df : i < task.row /\ HasVolume(i)

\* C5 as stated: a task whose base prompt alone exceeds max_tokens is never
\* translated (no generation call, no record).
C5_TooLongIsSkipped ==
    task.outcome = "translated" => available_tokens(task.term) >= 0

\* The stand-alone call has returned; its token counts.
Returned == bud.pc = "returned"
BudAvailable == available_tokens(bud.term)
BudContextTokens == Len(encode(bud.context_paragraph))
BudResultTokens == Len(encode(bud.result))
IsPrefix(p, q) == Len(p) <= Len(q) /\ SubSeq(q, 1, Len(p)) = p

\* C6 as stated: for every context, term and max_tokens the returned context
\* fits the budget left by the base prompt.
C6_ResultWithinBudget ==
    Returned => base_tokens(bud.term) + BudResultTokens <= max_tokens

\* C7 as stated: a context longer than a non-negative budget comes back with
\* exactly `available` tokens.
C7_ExactlyAvailable ==
    (Returned /\ BudContextTokens > BudAvailable /\ BudAvailable >= 0) =>
        BudResultTokens = BudAvailable

\* The token ids the truncation keeps, and whether encoding the returned
\* text again gives them back.
BudKept == SliceTo(encode(bud.context_paragraph), BudAvailable)
BudRoundTrip == encode(bud.result) = BudKept

\* The last of the kept ids is the first piece of a character whose second
\* piece is cut off.
CutsCharacter(kept) ==
    kept # <<>> /\ \E c \in {"w", FFFD} : kept[Len(kept)] = <<FirstPiece(c)>>

\* C7 amended: a context longer than a non-negative budget comes back as the
\* decoding of its first `available` token ids (the BOS id among them when
\* encode prepends one).  It has exactly `available` tokens when
\* available >= 1 and encoding it again gives the kept ids back, which is so
\* in particular when the cut does not fall between the pieces of a
\* character; when available = 0 it is empty and counts as many tokens as the
\* empty text does (the BOS token alone when the tokenizer prepends one).
C7_AvailableOrEmpty ==
    (Returned /\ BudContextTokens > BudAvailable /\ BudAvailable >= 0) =>
        /\ Len(BudKept) = BudAvailable
        /\ bud.result = decode(BudKept)
        /\ (BudAvailable >= 1 /\ BudRoundTrip) => BudResultTokens = BudAvailable
        /\ (BudAvailable >= 1 /\ ~CutsCharacter(BudKept)) => BudRoundTrip
        /\ BudAvailable = 0 => (bud.result = <<>> /\ BudResultTokens = Len(encode(<<>>)))

C7_Witness ==
    /\ Returned /\ BudContextTokens > BudAvailable /\ BudAvailable >= 2
    /\ bud.result # <<>>
    /\ \E c \in DOMAIN bud.result : bud.result[c] = "w"
    /\ BudRoundTrip
    /\ BudResultTokens = BudAvailable

\* C8: a context that fits the budget is returned unchanged.
C8_FitsUnchanged ==
    (Returned /\ BudContextTokens <= BudAvailable) => bud.result = bud.context_paragraph

C8_Witness ==
    /\ Returned /\ BudContextTokens = BudAvailable
    /\ bud.result = bud.context_paragraph
    /\ Len(Tokenize(bud.context_paragraph)) < Len(bud.context_paragraph)

C10_EmptyTable ==
    control_df = <<>> =>
        /\ task.outcome \notin {"translated", "empty_context"}
        /\ isna(task.context_paragraph)
        /\ generate_calls = 0
        /\ translation_results = <<>>
        /\ all_translation_results = <<>>
        /\ \A k \in DOMAIN file_results : file_results[k].translation_results = <<>>

C10_Witness ==
    /\ control_df = <<>>
    /\ task.outcome \in {"raised", "no_context"}

\* ---------------------------------------------------------------- batch runs
\* The row taken by the next iteration of the row loop.
NextRow == files[file_idx].rows[rows_done + 1]

\* The records that have reached the output so far.
Output ==
    IF IsServer
    THEN all_translation_results \o (IF pc = "rows" THEN translation_results ELSE <<>>)
    ELSE translation_results

\* C11 as stated: a lookup that fails for one task raises nothing, and a file
\* is reported with status 'error' only when it could not be read.
C11_TaskScoped ==
    /\ task.outcome # "raised"
    /\ \A k \in DOMAIN file_results :
          file_results[k].status = "error" => ~files[k].has_columns

\* The selected control record has no content.
SelectedIsNull(t) ==
    /\ t.row \in DOMAIN control_df
    /\ isna(control_df[t.row].disease_content)

NullContextSkips ==
    (RowStep /\ SelectedIsNull(task')) =>
        /\ generate_calls' = generate_calls
        /\ translation_results' = translation_results
        /\ all_translation_results' = all_translation_results
        /\ pc' = pc

\* C12: at every level, a task whose selected record has no content is
\* skipped: nothing is truncated, no generation call is made and no record is
\* written; a translated task had a context that is neither null nor empty.
C12_NullContentSkipped ==
    /\ [](SelectedIsNull(task) =>
            /\ task.outcome = "empty_context"
            /\ isna(task.truncated_context)
            /\ isna(task.translated_text))
    /\ [](task.outcome = "translated" =>
            /\ ~isna(task.context_paragraph)
            /\ task.context_paragraph # <<>>)
    /\ [][NullContextSkips]_vars

C12_Witness ==
    /\ task.branch = "same_volume" /\ task.outcome = "empty_context"
    /\ file_idx = 2 /\ Len(Output) >= 1

\* C13 as stated: no record is written for a task whose generation call
\* failed.
C13_NoRecordOfFailedGeneration ==
    \A k \in DOMAIN Output : Output[k].translated # GenerationFailed

\* The input rows reached so far, in input order, each with the volume of its
\* file.
RowsOfFile(k) ==
    [j \in 1..Len(files[k].rows) |-> [volume |-> files[k].volume_no, row |-> files[k].rows[j]]]

RECURSIVE RowsOfFiles(_)
RowsOfFiles(k) == IF k = 0 THEN <<>> ELSE RowsOfFiles(k - 1) \o RowsOfFile(k)

Reached ==
    IF file_idx = 0 THEN <<>>
    ELSE RowsOfFiles(file_idx - 1) \o SubSeq(RowsOfFile(file_idx), 1, rows_done)

\* The term a record of the running program holds for an input row.
RecordedTerm(row) ==
    IF IsServer /\ ~isna(row.disease) /\ row.disease # <<>> /\ Head(row.disease) = ZHI
    THEN (IF Len(row.disease) >= 2 /\ row.disease[2] = LIAO
          THEN SubSeq(row.disease, 3, Len(row.disease))
          ELSE Tail(row.disease))
    ELSE row.disease

IsRecordOf(rec, input) ==
    /\ rec.volume = input.volume
    /\ rec.section = input.row.section
    /\ rec.term = RecordedTerm(input.row)

\* The records are the records of a subsequence of the input rows.
InInputOrder(records, inputs) ==
    \E f \in [1..Len(records) -> 1..Len(inputs)] :
        /\ \A a, b \in 1..Len(records) : a < b => f[a] < f[b]
        /\ \A k \in 1..Len(records) : IsRecordOf(records[k], inputs[f[k]])

OneAtATime ==
    /\ rows_done' \in {rows_done, rows_done + 1, 0}
    /\ generate_calls' \in {generate_calls, generate_calls + 1}
    /\ \/ IsPrefix(Output, Output')
       \/ IsServer /\ task'.outcome = "raised" /\ Output' = all_translation_results
    /\ Len(Output') <= Len(Output) + 1
    /\ Len(Output') = Len(Output) + 1 => (RowStep /\ IsRecordOf(Output'[Len(Output')], Reached'[Len(Reached')]))

\* C14: rows are taken one at a time in input order; each step issues at most
\* one generation call and appends at most one record, the record of the row
\* just taken; the output is at all times the records of a subsequence of the
\* rows reached, in input order, with at most one record per row.
C14_InputOrder == [][OneAtATime]_vars /\ []InInputOrder(Output, Reached)

C14_Witness ==
    /\ pc = "done" /\ Len(files) = 2
    /\ Len(Output) = 3 /\ Len(Reached) = 3
    /\ Output[1].volume # Output[3].volume
    /\ Output[1].term # Output[2].term

WithTargetFile(df) ==
    SelectSeq(df, LAMBDA r : \E k \in DOMAIN files : files[k].volume_no = r.no)

FirstIndex(df, P(_)) == CHOOSE i \in DOMAIN df : P(df[i]) /\ \A j \in 1..(i - 1) : ~P(df[j])

ClosestVolume(df, volume) ==
    CHOOSE v \in {df[i].no : i \in DOMAIN df} :
        \A i \in DOMAIN df :
            \/ Abs(v - volume) < Abs(df[i].no - volume)
            \/ Abs(v - volume) = Abs(df[i].no - volume) /\ v <= df[i].no

Resolution(df, volume, section) ==
    LET key(r) == r.no = volume /\ r.section = section
        vol(r) == r.no = volume
        near(r) == r.no = ClosestVolume(df, volume)
    IN  IF \E i \in DOMAIN df : key(df[i]) THEN [level |-> 0, row |-> FirstIndex(df, key)]
        ELSE IF \E i \in DOMAIN df : vol(df[i]) THEN [level |-> 1, row |-> FirstIndex(df, vol)]
        ELSE IF df # <<>> THEN [level |-> 2, row |-> FirstIndex(df, near)]
        ELSE [level |-> 3, row |-> 0]

LevelOf(branch) ==
    CASE branch = "exact" -> 0
      [] branch = "same_volume" -> 1
      [] branch = "nearest" -> 2
      [] OTHER -> 3

\* What the lookup of an iteration produced.
Resolved(t) ==
    <<t.branch, t.row, t.nearest_volume, t.actual_section_used, t.context_paragraph,
      IF IsServer THEN t.actual_volume_used ELSE 0>>

DependsOnKeyOnly ==
    LET r == Resolution(control_df, task.volume_no, task.section)
    IN  LookedUp =>
            /\ LevelOf(task.branch) = r.level
            /\ task.row = r.row
            /\ r.level < 3 =>
                  /\ task.context_paragraph = control_df[r.row].disease_content
                  /\ task.actual_section_used =
                        (IF r.level = 0 THEN task.section ELSE control_df[r.row].section)
                  /\ IsServer => task.actual_volume_used = control_df[r.row].no
            /\ r.level = 3 => isna(task.context_paragraph)

SameKeySameResult ==
    (/\ RowStep /\ LookedUp /\ LookedUp' /\ control_df' = control_df
     /\ task'.volume_no = task.volume_no /\ task'.section = task.section) =>
        Resolved(task') = Resolved(task)

\* C16: what a lookup yields (level, record, actual volume and section,
\* context) is determined by the table and the requested (volume, section)
\* alone, whatever was processed before; two successive lookups of the same
\* key yield the same.
C16_Deterministic == []DependsOnKeyOnly /\ [][SameKeySameResult]_vars

C16_Witness ==
    /\ pc = "rows" /\ rows_done = 2
    /\ files[file_idx].rows[1].section = files[file_idx].rows[2].section
    /\ task.branch = "same_volume" /\ task.outcome = "translated"
    /\ Len(translation_results) = 2
    /\ task.row > 1

\* The rows of the current file taken so far that were looked up at a level.
TakenAtLevel(level) ==
    {k \in 1..rows_done :
        LET row == files[file_idx].rows[k]
        IN  /\ ~isna(row.disease) /\ ~isna(row.section)
            /\ \E c \in DOMAIN RecordedTerm(row) : RecordedTerm(row)[c] # " "
            /\ \E c \in DOMAIN row.section : row.section[c] # " "
            /\ Resolution(control_df, files[file_idx].volume_no, row.section).level = level}

CountersCount ==
    (IsServer /\ file_idx >= 1 /\ files[file_idx].has_columns) =>
        /\ fallback_level1_count = Cardinality(TakenAtLevel(1))
        /\ fallback_level2_count = Cardinality(TakenAtLevel(2))

CountersStep ==
    (IsServer /\ RowStep) =>
        LET d1 == fallback_level1_count' - fallback_level1_count
            d2 == fallback_level2_count' - fallback_level2_count
        IN  /\ <<d1, d2>> \in {<<0, 0>>, <<1, 0>>, <<0, 1>>}
            /\ d1 = 1 <=> task'.branch = "same_volume"
            /\ d2 = 1 <=> task'.branch = "nearest"

\* C17: in the server, per file, the level-1 counter is the number of tasks
\* taken so far whose record was selected by the same-volume fallback and the
\* level-2 counter the number of those whose record was selected by the
\* nearest-volume fallback; an iteration adds one to at most one counter and
\* an exact match adds to neither.
C17_FallbackCounters == []CountersCount /\ [][CountersStep]_vars

C17_Witness ==
    /\ IsServer /\ pc = "rows" /\ rows_done = 2
    /\ fallback_level1_count = 1 /\ fallback_level2_count = 0
    /\ task.branch = "exact"
    /\ Len(translation_results) = 2

\* C18 as stated (its last part): a run of the server in which some file
\* produced translations is never reported as 'error'.
C18_ErrorOnlyWhenNothingSucceeded ==
    (IsServer /\ pc = "done" /\ overall_status = "error") =>
        \A k \in DOMAIN file_results : file_results[k].translation_results = <<>>

\* A cell that is missing, or empty once the white space is trimmed.
Missing(cell) == isna(cell) \/ \A c \in DOMAIN cell : cell[c] \in Whitespace

SkippedBeforeLookup ==
    (RowStep /\ (Missing(NextRow.disease) \/ Missing(NextRow.section))) =>
        /\ task'.outcome \in {"not_valid", "blank"}
        /\ task'.branch = "none"
        /\ isna(task'.context_paragraph)
        /\ UNCHANGED <<generate_calls, translation_results, all_translation_results,
                       fallback_used, actual_volume_used, fallback_level1_count,
                       fallback_level2_count, file_results, pc>>

\* C19: an iteration on a row whose term or section is missing, or empty
\* after trimming, looks nothing up, flags and counts no fallback, issues no
\* generation call and writes no record.
C19_BlankRowSkipped == [][SkippedBeforeLookup]_vars

C19_Witness ==
    /\ pc = "rows" /\ rows_done = 2
    /\ task.outcome = "blank"
    /\ ~isna(files[file_idx].rows[2].disease) /\ ~isna(files[file_idx].rows[2].section)
    /\ Len(translation_results) = 1

\* C20 as stated: every record in the output carries a fallback flag, set
\* exactly when no control record has the record's (volume, section), and
\* the section of the control record whose content was used.
C20_RecordMetadata ==
    \A k \in DOMAIN Output :
        LET rec == Output[k]
            r == Resolution(control_df, rec.volume, rec.section)
        IN  /\ {"used_fallback", "actual_section"} \subseteq DOMAIN rec
            /\ rec.used_fallback = (r.level > 0)
            /\ rec.actual_section = control_df[r.row].section

\* The records among which the lookup of the last task chose, at its level.
Candidates ==
    CASE task.branch = "exact" -> {i \in DOMAIN control_df : HasKey(i)}
      [] task.branch = "same_volume" -> {i \in DOMAIN control_df : HasVolume(i)}
      [] task.branch = "nearest" ->
            {i \in DOMAIN control_df : control_df[i].no = task.nearest_volume}
      [] OTHER -> {}

\* C21: at every level the record used is the first candidate in table order;
\* its content is the context and, at levels 1 and 2, its section is the
\* actual section.
C21_FirstCandidate ==
    (LookedUp /\ task.branch \in {"exact", "same_volume", "nearest"}) =>
        /\ task.row \in Candidates
        /\ \A i \in Candidates : task.row <= i
        /\ task.context_paragraph = control_df[task.row].disease_content
        /\ task.actual_section_used = control_df[task.row].section

C21_Witness ==
    /\ task.branch = "nearest" /\ task.outcome = "translated"
    /\ \E i \in Candidates :
          /\ i > task.row
          /\ control_df[i].section # task.actual_section_used

\* C26: when the requested volume is absent and two volumes of the table are
\* equally distant from it, the nearest-volume fallback uses the lower one,
\* whatever the order of the records.
C26_TieLowerVolume ==
    (LookedUp /\ task.branch = "nearest") =>
        \A i \in DOMAIN control_df :
            Abs(control_df[i].no - task.volume_no) = Abs(task.nearest_volume - task.volume_no)
                => task.nearest_volume <= control_df[i].no

C26_Witness ==
    /\ task.branch = "nearest"
    /\ Len(control_df) = 2
    /\ control_df[1].no = task.volume_no + 1
    /\ control_df[2].no = task.volume_no - 1
    /\ task.nearest_volume = task.volume_no - 1

\* The server is inside, or has just left, the row loop of a readable file.
InCore == IsServer /\ file_idx >= 1 /\ files[file_idx].has_columns

\* C27: within one file of the server the two fallback counters are never
\* both positive, and actual_volume_used differs from the volume of the file
\* only when the level-2 counter is positive.
C27_LevelsExclusive ==
    InCore =>
        /\ ~(fallback_level1_count > 0 /\ fallback_level2_count > 0)
        /\ actual_volume_used # volume_no => fallback_level2_count > 0

C27_Witness ==
    /\ InCore /\ file_idx = 2
    /\ fallback_level2_count = 1 /\ actual_volume_used # volume_no
    /\ file_results[1].status = "warning"
    /\ file_results[1].actual_volume_used = files[1].volume_no

\* Some task of the current file taken so far selected a fallback record.
SomeFallbackTaken == TakenAtLevel(1) \cup TakenAtLevel(2) # {}

\* The step that returns the result of a file whose row loop ran to its end.
FileReturns ==
    IsServer /\ pc = "rows" /\ pc' = "next_file" /\ rows_done' = rows_done

StatusAtReturn ==
    FileReturns =>
        /\ Len(file_results') = Len(file_results) + 1
        /\ file_results'[Len(file_results')].status =
              (IF SomeFallbackTaken THEN "warning" ELSE "success")

FlagStaysSet == (IsServer /\ RowStep /\ fallback_used) => fallback_used'

\* C28: a file of the server that raised nothing is returned with status
\* 'warning' exactly when some task of the file selected a fallback record
\* (also one that was then skipped for null content), else with 'success';
\* within the file the flag, once set, stays set.
C28_WarningIffFallback ==
    /\ [](InCore => (fallback_used <=> SomeFallbackTaken))
    /\ [][StatusAtReturn]_vars
    /\ [][FlagStaysSet]_vars

C28_Witness ==
    /\ IsServer /\ pc = "next_file" /\ file_idx = 1 /\ rows_done = 2
    /\ Len(file_results) = 1
    /\ file_results[1].status = "warning"
    /\ file_results[1].translation_results = <<>>
    /\ task.branch = "exact"

FileIndexOf(v) == CHOOSE k \in DOMAIN files : files[k].volume_no = v

RecordsOfVolume(records, v) == SelectSeq(records, LAMBDA rec : rec.volume = v)

\* C29: in the server the merged output never holds a record of a file that
\* raised, also when tasks of that file were translated before the
\* exception; it holds the records of the files returned with 'success' or
\* 'warning', file after file in file order; every file of the folder is
\* processed.
C29_MergedOutput ==
    IsServer =>
        /\ \A i \in DOMAIN all_translation_results :
              LET k == FileIndexOf(all_translation_results[i].volume)
              IN  /\ k \in DOMAIN file_results
                  /\ file_results[k].status \in {"success", "warning"}
        /\ \A i, j \in DOMAIN all_translation_results :
              i < j => FileIndexOf(all_translation_results[i].volume)
                          <= FileIndexOf(all_translation_results[j].volume)
        /\ \A k \in DOMAIN file_results :
              IF file_results[k].status = "error"
              THEN file_results[k].translation_results = <<>>
              ELSE RecordsOfVolume(all_translation_results, files[k].volume_no)
                      = file_results[k].translation_results
        /\ pc = "done" => Len(file_results) = Len(files)

C29_Witness ==
    /\ IsServer /\ pc = "done" /\ Len(files) = 2
    /\ files[1].has_columns /\ file_results[1].status = "error"
    /\ file_results[2].status = "warning"
    /\ generate_calls = 2
    /\ Len(all_translation_results) = 1

\* C22 as stated: the term of every record in the output is the term of its
\* input row as read.
C22_TermAsRead ==
    \A k \in DOMAIN Output :
        \E j \in DOMAIN Reached :
            /\ Output[k].volume = Reached[j].volume
            /\ Output[k].section = Reached[j].row.section
            /\ Output[k].term = Reached[j].row.disease

\* The term of a row is the given prefix followed by the term the iteration
\* works with.
Removed(prefix) == NextRow.disease = prefix \o task'.term

OnePrefixRemoved ==
    (IsServer /\ RowStep /\ ~isna(NextRow.disease)) =>
        LET raw == NextRow.disease
            zhi == raw # <<>> /\ raw[1] = ZHI
            zhi_liao == zhi /\ Len(raw) >= 2 /\ raw[2] = LIAO
        IN  /\ zhi_liao => Removed(<<ZHI, LIAO>>)
            /\ (zhi /\ ~zhi_liao) => Removed(<<ZHI>>)
            /\ ~zhi => Removed(<<>>)
            /\ (\A c \in DOMAIN task'.term : task'.term[c] = " ") =>
                  /\ task'.outcome = "blank"
                  /\ task'.branch = "none"
                  /\ generate_calls' = generate_calls
                  /\ translation_results' = translation_results

\* C30: the server removes from a term the leading ZHI LIAO if it starts with
\* them, else the leading ZHI if it starts with it, once, and nothing else; a
\* term that is empty (or blank) after the removal is skipped without lookup
\* or generation.
C30_OnePrefixRemoved == [][OnePrefixRemoved]_vars

C30_Witness ==
    /\ IsServer /\ rows_done = 1
    /\ files[1].rows[1].disease = <<ZHI, LIAO, ZHI>>
    /\ task.term = <<ZHI>>
    /\ task.outcome = "translated"

\* C23: batch_fetch_ingredient_targets makes at most max_retries attempts for
\* each mol_id, whatever get_ingredient_targets does (data, None or empty,
\* exception), and then moves on to the next mol_id.
C23_AtMostMaxRetries ==
    fetch.pc \in {"for", "while", "returned"} => fetch.attempts <= fetch.max_retries

\* A result is accepted when it is non-empty and does not start with '[ERROR'.
ValidResult(r) == r # NaN /\ r # <<>> /\ ~(Len(r) >= 6 /\ SubSeq(r, 1, 6) = ERROR_PREFIX)

ErrorTexts == {InputTooLong, TranslationFailed, MaxRetriesExceeded}

HerbReturned == herb.pc = "returned"

HerbStep ==
    herb.pc = "for" /\ herb' # herb =>
       /\ herb'.pc \in {"for", "returned"}
       /\ herb'.generate_calls <= herb.generate_calls + 1
       \* too long: returned at once, nothing generated
       /\ herb.too_long /\ herb'.event \notin {"tokenize_raises", "loop_end"} =>
             /\ herb'.pc = "returned" /\ herb'.result = InputTooLong
             /\ herb'.generate_calls = herb.generate_calls
       \* the first valid result is the one returned
       /\ herb'.event = "decoded" /\ ValidResult(clean(herb'.response)) =>
             herb'.pc = "returned" /\ herb'.result = clean(herb'.response)
       \* an attempt that goes on was not valid
       /\ herb'.pc = "for" /\ herb'.event = "decoded" => ~ValidResult(clean(herb'.response))

\* C24: translate_to_english generates at most max_retries times, returns the
\* first valid result, returns '[ERROR: Input too long]' at once when the
\* input is too long, and returns an '[ERROR' text in every other case.
C24_BoundedRetries ==
    /\ [](/\ herb.generate_calls <= herb.max_retries
          /\ herb.attempt <= herb.max_retries
          /\ HerbReturned =>
                \/ /\ ValidResult(herb.result) /\ herb.event = "decoded"
                   /\ herb.result = clean(herb.response)
                \/ herb.result \in ErrorTexts)
    /\ [][HerbStep]_vars

C24_Witness ==
    /\ HerbReturned /\ ValidResult(herb.result)
    /\ herb.generate_calls = 2 /\ herb.attempt = 1
    /\ herb.result # herb.response

\* The translations of rows 0 .. n-1 in row order.
RECURSIVE RowsUpTo(_)
RowsUpTo(n) == IF n <= 0 THEN <<>> ELSE Append(RowsUpTo(n - 1), n - 1)

\* C25: after an interruption anywhere in the loop and a restart, the run goes
\* on after the last saved index with the saved results; at every iteration
\* the number of translations equals the index of the row to translate; the
\* finished column holds one translation per row in row order.
C25_ResumeContinues ==
    /\ resume.pc # "load_failed"
    /\ resume.pc = "loop" =>
          /\ Len(resume.english_names) = resume.idx
          /\ resume.english_names = RowsUpTo(resume.idx)
    /\ resume.pc \in {"stats", "raised", "cleanup", "tail", "done"} =>
          resume.output = RowsUpTo(resume.total)

====
